---- MODULE Spec2Model ----
(***************************************************************************)
(* A model of rfielding/uploader: the multipart upload handler with its    *)
(* token check and drain, and the download handler, in the plain revision  *)
(* (src/uploader.go) and in the cipher revision (src/unnamed/part_001).    *)
(*                                                                         *)
(* One request is handled at a time; pc is the handler's position.  Every  *)
(* blocking call of the code (NextPart, Read on a part, Read on a file) is *)
(* one action, and the environment (the multipart reader, the part's byte  *)
(* stream, the file system) answers it with any result its interface       *)
(* allows.  Spec is that sequential server, SpecVal the token check on     *)
(* every expected value and stream, SpecConc two upload requests running   *)
(* at the same time on the one bucket, SpecCiph concurrent uploads and     *)
(* downloads of the cipher revision, SpecWrite one call of                 *)
(* CountingStreamWriter.Write, and SpecTamper the cipher revision with a   *)
(* stored byte changed between upload and download.                        *)
(***************************************************************************)
EXTENDS Integers, Sequences, FiniteSets, TLC

\* ------------------------------------------------------------------ bounds

\* h.BufferSize, scaled down from 8192
BufferSize == 2
\* the most parts one multipart request carries
MaxParts == 3
\* the read counter of a part saturates here
MaxReads == 2

\* the longest part body: one byte more than a buffer, so that a part can
\* need several reads and a token can overflow the buffer
MaxLen == BufferSize + 1

\* bytes are bits, so that the cipher's XOR is exact
Byte == {0, 1}
FileNames == {"a"}
FormNames == {"uploadCookie", "theFile"}
Variants == {"plain", "cipher"}

Min(a, b) == IF a < b THEN a ELSE b
Max(a, b) == IF a > b THEN a ELSE b

SeqsUpTo(n) == UNION {[1..k -> Byte] : k \in 0..n}

\* s[from+1 .. from+n]
Slice(s, from, n) == SubSeq(s, from + 1, from + n)

\* ------------------------------------------------------------------- state

VARIABLES
    variant,        \* which revision runs: "plain" or "cipher"
    UploadCookie,   \* h.UploadCookie, the expected token
    files,          \* the backing store: file name -> content, or NoFile
    pc,             \* the handler's position
    isAuthorized,   \* serveHTTPUploadPOST's local
    partBytes,      \* serveHTTPUploadPOST's local (plain revision)
    partCount,      \* serveHTTPUploadPOST's local (plain revision)
    partReqs,       \* parts the multipart reader has yielded in this request
    part,           \* the current multipart.Part: names, body, read position
    partReads,      \* calls of part.Read on the current part (saturating)
    buffer,         \* valCheck's buffer[:totalBytesRead]
    checked,        \* what checkUploadCookie returned for the current part
    drainTo,        \* the drain's destination handle
    drain,          \* the bufio.Writer's pending bytes (plain revision)
    bytesWritten,   \* the drain's counter
    partsWritten,   \* the drain's counter
    drainExit,      \* how the drain of the last part taken ended
    drainFailed,    \* whether a drain of this request ended in an error
    downloadFrom,   \* the download's source handle
    dlExit,         \* how the last download ended
    streamPos,      \* the cipher.Stream's keystream position
    status,         \* the response's status code, 0 while no header is written
    msgs,           \* the pages and error messages written to the response
    body,           \* the object bytes written to the response
    uploaded,       \* per file name, the body of the part last drained to it
                    \* without a failed write
    sess,           \* the handlers' locals of requests served concurrently
    wr,             \* one call of CountingStreamWriter.Write
    tampered        \* the position of the stored byte changed behind the
                    \* server's back, 0 while none was

vars == <<variant, UploadCookie, files, pc, isAuthorized, partBytes, partCount,
          partReqs, part, partReads, buffer, checked, drainTo, drain,
          bytesWritten, partsWritten, drainExit, drainFailed, downloadFrom,
          dlExit, streamPos, status, msgs, body, uploaded, sess, wr,
          tampered>>

cfgVars == <<variant, UploadCookie>>
respVars == <<status, msgs, body>>
sessVars == <<isAuthorized, partBytes, partCount>>
drainVars == <<drainTo, drain, bytesWritten, partsWritten>>

\* a file that does not exist
NoFile == <<-1>>
\* no upload to this name has completed
NoUpload == <<-1>>

NoPart == [form |-> "", file |-> "", data |-> <<>>, pos |-> 0, broken |-> FALSE]
\* werr: a write through the handle has failed; had: os.Create found an
\* object at the path
NoHandle ==
    [name |-> "", off |-> 0, open |-> FALSE, werr |-> FALSE, had |-> FALSE]

\* --------------------------------------------------------- the environment

\* What one Read(p) with len(p) = cap > 0 on a multipart.Part may return: some
\* bytes (a Part never returns 0 bytes and no error), the last bytes together
\* with io.EOF or io.EOF alone, or an error with the bytes before it, which
\* the Part then repeats on every later call.
PartReadOutcomes(p, cap) ==
    IF p.broken THEN {[n |-> 0, err |-> "err"]}
    ELSE LET rem == Len(p.data) - p.pos
             m == Min(cap, rem)
         IN  {[n |-> k, err |-> "nil"] : k \in 1..m}
             \cup (IF rem <= cap THEN {[n |-> rem, err |-> "EOF"]} ELSE {})
             \cup {[n |-> k, err |-> "err"] : k \in 0..m}

\* the part after a Read that returned o
PartAfter(p, o) ==
    [p EXCEPT !.pos = p.pos + o.n, !.broken = (o.err = "err")]

\* What one Read on an os.File at offset off may return: some bytes, or
\* (0, io.EOF) at or past the end of the file, or an error.
FileReadOutcomes(content, off, cap) ==
    LET rem == Len(content) - off
    IN  {[n |-> k, err |-> "nil"] : k \in 1..Min(cap, rem)}
        \cup (IF rem <= 0 THEN {[n |-> 0, err |-> "EOF"]} ELSE {})
        \cup {[n |-> 0, err |-> "err"]}

\* content after writing bytes b at offset off (os.File.Write); an offset
\* past the end leaves a hole that reads as zeros
WriteAt(content, off, b) ==
    IF Len(b) = 0 THEN content
    ELSE [i \in 1..Max(Len(content), off + Len(b)) |->
            IF i > off /\ i <= off + Len(b) THEN b[i - off]
            ELSE IF i <= Len(content) THEN content[i] ELSE 0]

\* What writing bytes b to an os.File may do: write them all, or fail after
\* some of them; nothing is called, and nothing fails, for no bytes.
FileWriteOutcomes(b) ==
    {[n |-> Len(b), ok |-> TRUE]}
        \cup {[n |-> k, ok |-> FALSE] : k \in 0..(Len(b) - 1)}

\* ------------------------------------------------------------ the response

\* http.Error(w, msg, code): the status is set only while no header has been
\* written; the message is written to the body either way.
HttpError(code) ==
    /\ status' = (IF status = 0 THEN code ELSE status)
    /\ msgs' = Append(msgs, code)
    /\ body' = body

\* serveHTTPUploadGETMsg("ok", w, r): the first write sends the header, 200
\* unless a status was written before.
ServeOkPage ==
    /\ status' = (IF status = 0 THEN 200 ELSE status)
    /\ msgs' = Append(msgs, 200)
    /\ body' = body

\* --------------------------------------------------------------- requests

\* the requests the server may serve at the same time, one goroutine each
Sessions == {1, 2}

\* the locals of a request that has not started
NoSession ==
    [pc |-> "idle", isAuthorized |-> FALSE, partBytes |-> 0, partCount |-> 0,
     reqs |-> 0, part |-> NoPart, drainTo |-> NoHandle, drain |-> <<>>,
     bytesWritten |-> 0, partsWritten |-> 0, status |-> 0,
     verified |-> FALSE, own |-> 0, sent |-> NoUpload,
     streamPos |-> 0, from |-> NoHandle, body |-> <<>>,
     alone |-> FALSE, want |-> NoUpload]

\* no call of CountingStreamWriter.Write
NoWrite ==
    [at |-> "none", src |-> <<>>, pos |-> 0, sinkN |-> 0, sinkErr |-> "nil",
     sunk |-> <<>>, after |-> <<>>, n |-> 0, err |-> "nil"]

Init ==
    /\ variant \in Variants
    /\ UploadCookie = <<1>>
    /\ files = [f \in FileNames |-> NoFile]
    /\ pc = "idle"
    /\ isAuthorized = FALSE
    /\ partBytes = 0
    /\ partCount = 0
    /\ partReqs = 0
    /\ part = NoPart
    /\ partReads = 0
    /\ buffer = <<>>
    /\ checked = "none"
    /\ drainTo = NoHandle
    /\ drain = <<>>
    /\ bytesWritten = 0
    /\ partsWritten = 0
    /\ drainExit = "none"
    /\ drainFailed = FALSE
    /\ downloadFrom = NoHandle
    /\ dlExit = "none"
    /\ streamPos = 0
    /\ status = 0
    /\ msgs = <<>>
    /\ body = <<>>
    /\ uploaded = [f \in FileNames |-> NoUpload]
    /\ sess = [s \in Sessions |-> NoSession]
    /\ wr = NoWrite
    /\ tampered = 0

\* A new request: a fresh response, and the handler's locals as declared.
NewRequest ==
    /\ isAuthorized' = FALSE
    /\ partBytes' = 0
    /\ partCount' = 0
    /\ partReqs' = 0
    /\ part' = NoPart
    /\ partReads' = 0
    /\ buffer' = <<>>
    /\ checked' = "none"
    /\ drainTo' = NoHandle
    /\ drain' = <<>>
    /\ bytesWritten' = 0
    /\ partsWritten' = 0
    /\ drainExit' = "none"
    /\ drainFailed' = FALSE

\* The upload requests modelled arrive while the bucket is still empty; what
\* an upload finds of an earlier one is covered by the later file parts of
\* one request.
BucketEmpty == \A f \in FileNames : files[f] = NoFile

\* serveHTTPUploadPOST up to its loop: r.MultipartReader() succeeds.
StartUpload ==
    /\ pc = "idle"
    /\ BucketEmpty
    /\ NewRequest
    /\ downloadFrom' = NoHandle
    /\ dlExit' = "none"
    /\ streamPos' = 0
    /\ status' = 0 /\ msgs' = <<>> /\ body' = <<>>
    /\ pc' = "nextPart"
    /\ UNCHANGED <<cfgVars, sess, wr, tampered, files, uploaded>>

\* serveHTTPUploadPOST: r.MultipartReader() fails, 500 and return.
StartUploadFails ==
    /\ pc = "idle"
    /\ BucketEmpty
    /\ NewRequest
    /\ downloadFrom' = NoHandle
    /\ dlExit' = "none"
    /\ streamPos' = 0
    /\ status' = 500 /\ msgs' = <<500>> /\ body' = <<>>
    /\ pc' = "idle"
    /\ UNCHANGED <<cfgVars, sess, wr, tampered, files, uploaded>>

\* ------------------------------------------------- the orchestrator's loop

\* the parts the multipart reader may yield
Parts ==
    {[form |-> fo, file |-> fi, data |-> d, pos |-> 0, broken |-> FALSE] :
        fo \in FormNames, fi \in FileNames \cup {""}, d \in SeqsUpTo(MaxLen)}

\* strings.Compare(part.FormName(), "uploadCookie") == 0
IsCookiePart(p) == p.form = "uploadCookie"

\* the token fields the requests carry: no token, the right one, the right
\* one with a byte after it, and a wrong one that is longer than the buffer;
\* valCheck on every body is the subject of SpecVal
CookieBodies ==
    {<<>>, UploadCookie, UploadCookie \o <<0>>, [i \in 1..MaxLen |-> 0]}

CookieParts == {p \in Parts : IsCookiePart(p) /\ p.data \in CookieBodies}

\* len(part.FileName()) > 0
IsFilePart(p) == p.file # ""

\* a gate that is always open
MayDrainOpen == TRUE

\* the gate before a drain: if isAuthorized
MayDrain == isAuthorized

\* serveHTTPUploadPOST returns: its locals are gone.
UploadReturns ==
    /\ isAuthorized' = FALSE
    /\ partBytes' = 0
    /\ partCount' = 0
    /\ partReads' = 0
    /\ checked' = "none"
    /\ pc' = "idle"

\* multipartReader.NextPart() returns io.EOF: leave the loop, write the "ok"
\* page and return.
NextPartEOF ==
    /\ pc = "nextPart"
    /\ ServeOkPage
    /\ UploadReturns
    /\ UNCHANGED <<cfgVars, sess, wr, tampered, files, partReqs, part, buffer, drainVars, drainExit, drainFailed,
                   downloadFrom, dlExit, streamPos, uploaded>>

\* multipartReader.NextPart() returns another error: 500 and return.
NextPartError ==
    /\ pc = "nextPart"
    /\ HttpError(500)
    /\ UploadReturns
    /\ UNCHANGED <<cfgVars, sess, wr, tampered, files, partReqs, part, buffer, drainVars, drainExit, drainFailed,
                   downloadFrom, dlExit, streamPos, uploaded>>

\* the part is the token field: checkUploadCookie allocates its buffer and
\* valCheck starts reading.
NextPartCookie ==
    /\ pc = "nextPart"
    /\ partReqs < MaxParts
    /\ \E p \in CookieParts :
        part' = p
    /\ partReqs' = partReqs + 1
    /\ partReads' = 0
    /\ buffer' = <<>>
    /\ checked' = "none"
    /\ drainExit' = "none"
    /\ pc' = "valCheck"
    /\ UNCHANGED <<cfgVars, sess, wr, tampered, files, sessVars, drainVars, drainFailed,
                   downloadFrom, dlExit, streamPos, respVars, uploaded>>

\* the other fields the requests carry: no file name, an empty or a short
\* body
OtherParts ==
    {p \in Parts : ~IsCookiePart(p) /\ ~IsFilePart(p) /\ Len(p.data) <= 1}

\* a skip that takes the authorization away
SkipPartUnauthorize ==
    /\ isAuthorized' = FALSE
    /\ UNCHANGED <<files, partBytes, partCount, respVars>>
    /\ pc' = "nextPart"

\* what the orchestrator does with a part that is neither the token field
\* nor a file: nothing, and on to the next part
SkipPart ==
    /\ UNCHANGED <<files, sessVars, respVars>>
    /\ pc' = "nextPart"

\* the part is neither the token field nor a file; its body is not read.
NextPartSkip ==
    /\ pc = "nextPart"
    /\ partReqs < MaxParts
    /\ \E p \in OtherParts :
        part' = p
    /\ partReqs' = partReqs + 1
    /\ partReads' = 0
    /\ checked' = "none"
    /\ drainExit' = "none"
    /\ SkipPart
    /\ UNCHANGED <<cfgVars, sess, wr, tampered, buffer, drainVars, drainFailed,
                   downloadFrom, dlExit, streamPos, uploaded>>

\* a rejection that writes the 400 and stays in the part loop
RejectAndContinue ==
    /\ HttpError(400)
    /\ pc' = "nextPart"
    /\ UNCHANGED <<sessVars, partReads, checked>>

\* what the orchestrator does with a file part it may not drain: 400 and
\* return
Reject ==
    /\ HttpError(400)
    /\ UploadReturns

\* a file part while the gate is closed.
NextPartUnauthorized ==
    /\ pc = "nextPart"
    /\ partReqs < MaxParts
    /\ \E p \in Parts :
        /\ ~IsCookiePart(p)
        /\ IsFilePart(p)
        /\ part' = p
    /\ ~MayDrain
    /\ partReqs' = partReqs + 1
    /\ Reject
    /\ UNCHANGED <<cfgVars, sess, wr, tampered, files, buffer, drainVars, drainExit, drainFailed,
                   downloadFrom, dlExit, streamPos, uploaded>>

\* ------------------------------------------------------- the token check

\* valCheck's comparison after its read loop: the lengths, then each byte.
ValCompare(buf, refVal) ==
    /\ Len(buf) = Len(refVal)
    /\ \A i \in 1..Len(refVal) : refVal[i] = buf[i]

\* valCheck's loop is left when the read reports io.EOF (bytesRead < 0 never
\* happens); the bytes of that read are not added to totalBytesRead.
ValLoopBreaks(o) == o.err = "EOF"

\* a read into the whole buffer every time
ValReadWhole(buf) == BufferSize

\* the room valCheck offers a read: len(buffer[totalBytesRead:])
ValReadCap(buf) == BufferSize - Len(buf)

\* a flag that follows the latest token part
AuthorizedLatest(auth, ok) == ok

\* the orchestrator's use of checkUploadCookie's result
AuthorizedAfter(auth, ok) == IF ok THEN TRUE ELSE auth

\* valCheck returns ok to checkUploadCookie and to the orchestrator.
ValCheckReturn(ok) ==
    /\ checked' = (IF ok THEN "true" ELSE "false")
    /\ isAuthorized' = AuthorizedAfter(isAuthorized, ok)
    /\ buffer' = <<>>
    /\ part' = NoPart
    /\ pc' = "nextPart"

\* one iteration of valCheck's loop with room left in the buffer: Read into
\* buffer[totalBytesRead:].
ValCheckRead ==
    /\ pc = "valCheck"
    /\ Len(buffer) < BufferSize
    /\ \E o \in PartReadOutcomes(part, ValReadCap(buffer)) :
        IF ValLoopBreaks(o)
        THEN ValCheckReturn(ValCompare(buffer, UploadCookie))
        ELSE /\ part' = PartAfter(part, o)
             /\ buffer' = buffer \o Slice(part.data, part.pos, o.n)
             /\ UNCHANGED <<pc, checked, isAuthorized>>
    /\ partReads' = Min(partReads + 1, MaxReads)
    /\ UNCHANGED <<cfgVars, sess, wr, tampered, files, partBytes, partCount, partReqs, drainVars,
                   drainExit, drainFailed, downloadFrom, dlExit, streamPos, respVars, uploaded>>

\* the iteration that finds the buffer full: totalBytesRead >= bufferLength.
ValCheckFull ==
    /\ pc = "valCheck"
    /\ Len(buffer) >= BufferSize
    /\ ValCheckReturn(ValCompare(buffer, UploadCookie))
    /\ UNCHANGED <<cfgVars, sess, wr, tampered, files, partBytes, partCount, partReqs,
                   partReads, drainVars, drainExit, drainFailed, downloadFrom, dlExit, streamPos,
                   respVars, uploaded>>

\* ------------------------------------------------------------- the cipher

\* the AES-CTR keystream of (h.Key, h.IV) at byte position i, as a fixed
\* sequence of bits that depends on the position
KeyStream(i) == (i + (i \div 2)) % 2

Xor(a, b) == (a + b) % 2

\* a keystream that starts again with every chunk
XORRestarted(pos, b) == [i \in 1..Len(b) |-> Xor(b[i], KeyStream(i - 1))]

\* a transform in which every byte also depends on the byte before it
XORChained(pos, b) ==
    [i \in 1..Len(b) |->
        Xor(Xor(b[i], KeyStream(pos + i - 1)), IF i > 1 THEN b[i - 1] ELSE 0)]

\* cipher.Stream.XORKeyStream on bytes b with the stream at position pos
XORKeyStream(pos, b) == [i \in 1..Len(b) |-> Xor(b[i], KeyStream(pos + i - 1))]

\* io.Copy's buffer is 32 KiB whatever h.BufferSize is
CopyBufSize == 4 * BufferSize

\* ----------------------------------------------------- the plain drain

\* bufio.NewWriter's buffer is 4096 bytes, half of h.BufferSize
BufioSize == BufferSize \div 2

\* a writer that hands the new bytes on before the pending ones
BufioWriteSwapped(buf, p) ==
    IF Len(buf) = 0 /\ Len(p) <= BufioSize
    THEN [buf |-> p, out |-> <<>>]
    ELSE [buf |-> <<>>, out |-> p \o buf]

\* bufio.Writer.Write(p) with buf pending: the bytes handed on to the file
\* (out) and the bytes left pending (buf).
RECURSIVE BufioWrite(_, _)
BufioWrite(buf, p) ==
    IF Len(p) > BufioSize - Len(buf)
    THEN IF Len(buf) = 0
         THEN [buf |-> <<>>, out |-> p]
         ELSE LET n == BufioSize - Len(buf)
                  r == BufioWrite(<<>>, Slice(p, n, Len(p) - n))
              IN  [buf |-> r.buf, out |-> buf \o Slice(p, 0, n) \o r.out]
    ELSE [buf |-> buf \o p, out |-> <<>>]

\* drain.Write(p) on handle h: once a write to the file has failed the
\* bufio.Writer keeps its error and passes nothing on; the drain does not look
\* at the result.
DrainWrite(h, buf, p) ==
    IF h.werr THEN [buf |-> buf, out |-> <<>>] ELSE BufioWrite(buf, p)

\* os.Create(fileName) succeeds: the file exists and is empty.
Created(f) ==
    /\ files' = [files EXCEPT ![f] = <<>>]
    /\ drainTo' = [name |-> f, off |-> 0, open |-> TRUE, werr |-> FALSE,
                   had |-> files[f] # NoFile]
    /\ uploaded' = [uploaded EXCEPT ![f] = NoUpload]

\* the drain returns to the orchestrator, which adds its counters up
\* (the cipher revision has no counters and leaves them at 0).
DrainReturns(how, bytes, parts) ==
    /\ drainExit' = how
    /\ drainFailed' = (drainFailed \/ how # "eof")
    /\ partBytes' = partBytes + bytes
    /\ partCount' = partCount + parts
    /\ bytesWritten' = 0
    /\ partsWritten' = 0
    /\ part' = NoPart
    /\ pc' = "nextPart"

\* a file part with the gate open, plain revision: os.Create succeeds and
\* the drain's loop starts.
NextPartDrain ==
    /\ pc = "nextPart"
    /\ variant = "plain"
    /\ partReqs < MaxParts
    /\ MayDrain
    /\ \E p \in Parts :
        /\ ~IsCookiePart(p)
        /\ IsFilePart(p)
        /\ part' = p
        /\ Created(p.file)
    /\ partReqs' = partReqs + 1
    /\ partReads' = 0
    /\ checked' = "none"
    /\ drain' = <<>>
    /\ bytesWritten' = 0
    /\ partsWritten' = 0
    /\ drainExit' = "none"
    /\ pc' = "drain"
    /\ UNCHANGED <<cfgVars, sess, wr, tampered, sessVars, buffer, drainFailed, downloadFrom, dlExit, streamPos, respVars>>

\* a create failure noticed only after one read of the part
CreateFailsAfterRead ==
    /\ partReads' = 1
    /\ HttpError(500)
    /\ DrainReturns("createErr", 0, 0)

\* what the plain drain does when os.Create fails: 500, and back to the
\* orchestrator with both counters 0
CreateFailsPlain ==
    /\ partReads' = 0
    /\ HttpError(500)
    /\ DrainReturns("createErr", 0, 0)

\* a file part with the gate open, plain revision: os.Create fails.
NextPartCreateFails ==
    /\ pc = "nextPart"
    /\ variant = "plain"
    /\ partReqs < MaxParts
    /\ MayDrain
    /\ \E p \in Parts :
        /\ ~IsCookiePart(p)
        /\ IsFilePart(p)
    /\ partReqs' = partReqs + 1
    /\ checked' = "none"
    /\ CreateFailsPlain
    /\ UNCHANGED <<cfgVars, sess, wr, tampered, files, isAuthorized, buffer, drainTo, drain,
                   downloadFrom, dlExit, streamPos, uploaded>>

\* what drain.Flush() hands to the file: the pending bytes, or nothing after
\* a failed write
FlushOut == IF drainTo.werr THEN <<>> ELSE drain

\* drain.Flush() with result fw, which is not looked at, and the deferred
\* drainTo.Close()
FlushAndClose(fw) ==
    /\ files' = [files EXCEPT ![drainTo.name] =
                    WriteAt(@, drainTo.off, Slice(FlushOut, 0, fw.n))]
    /\ drainTo' = NoHandle
    /\ drain' = <<>>

\* the deferred drainTo.Close() alone: what the bufio.Writer holds is dropped
CloseOnly ==
    /\ files' = files
    /\ drainTo' = NoHandle
    /\ drain' = <<>>

\* the plain drain's exit on a read error: 500 and return
DrainErrorExit ==
    /\ HttpError(500)
    /\ CloseOnly

\* one iteration of the plain drain's loop: part.Read(buffer) returns bytes
\* and no error; they go to the bufio.Writer.
DrainReadData ==
    /\ pc = "drain"
    /\ \E o \in PartReadOutcomes(part, BufferSize) :
        /\ o.err = "nil"
        /\ part' = PartAfter(part, o)
        /\ LET w == DrainWrite(drainTo, drain,
                               Slice(part.data, part.pos, o.n))
           IN  \E fw \in FileWriteOutcomes(w.out) :
                 /\ drain' = (IF fw.ok THEN w.buf ELSE <<>>)
                 /\ files' = [files EXCEPT ![drainTo.name] =
                       WriteAt(@, drainTo.off, Slice(w.out, 0, fw.n))]
                 /\ drainTo' = [drainTo EXCEPT !.off = @ + fw.n,
                                               !.werr = (@ \/ ~fw.ok)]
        /\ bytesWritten' = bytesWritten + o.n
        /\ partsWritten' = partsWritten + (IF o.n > 0 THEN 1 ELSE 0)
    /\ partReads' = Min(partReads + 1, MaxReads)
    /\ UNCHANGED <<cfgVars, sess, wr, tampered, pc, sessVars, partReqs, buffer, checked, drainExit, drainFailed,
                   downloadFrom, dlExit, streamPos, respVars, uploaded>>

\* part.Read(buffer) returns io.EOF: break, Flush, return.
DrainReadEOF ==
    /\ pc = "drain"
    /\ \E o \in PartReadOutcomes(part, BufferSize) :
        o.err = "EOF"
    /\ partReads' = Min(partReads + 1, MaxReads)
    /\ \E fw \in FileWriteOutcomes(FlushOut) :
        /\ FlushAndClose(fw)
        /\ uploaded' = IF drainTo.werr \/ ~fw.ok THEN uploaded
                       ELSE [uploaded EXCEPT ![drainTo.name] = part.data]
    /\ DrainReturns("eof", bytesWritten, partsWritten)
    /\ UNCHANGED <<cfgVars, sess, wr, tampered, isAuthorized, partReqs, buffer, checked,
                   downloadFrom, dlExit, streamPos, respVars>>

\* part.Read(buffer) returns another error: 500 and return.
DrainReadError ==
    /\ pc = "drain"
    /\ \E o \in PartReadOutcomes(part, BufferSize) :
        o.err = "err"
    /\ partReads' = Min(partReads + 1, MaxReads)
    /\ DrainErrorExit
    /\ DrainReturns("readErr", bytesWritten, partsWritten)
    /\ UNCHANGED <<cfgVars, sess, wr, tampered, isAuthorized, partReqs, buffer, checked,
                   downloadFrom, dlExit, streamPos, uploaded>>

\* ----------------------------------------------------- the cipher drain

\* a file part with the gate open, cipher revision: os.Create succeeds,
\* doCipherByReaderWriter builds a fresh CTR stream and io.Copy starts.
NextPartCopy ==
    /\ pc = "nextPart"
    /\ variant = "cipher"
    /\ partReqs < MaxParts
    /\ MayDrain
    /\ \E p \in Parts :
        /\ ~IsCookiePart(p)
        /\ IsFilePart(p)
        /\ part' = p
        /\ Created(p.file)
    /\ partReqs' = partReqs + 1
    /\ partReads' = 0
    /\ checked' = "none"
    /\ streamPos' = 0
    /\ drainExit' = "none"
    /\ pc' = "copyIn"
    /\ UNCHANGED <<cfgVars, sess, wr, tampered, sessVars, buffer, drainFailed, drain, bytesWritten,
                   partsWritten, downloadFrom, dlExit, respVars>>

\* a file part with the gate open, cipher revision: os.Create fails, which is
\* only logged; io.Copy onto the nil file returns its error before any read
\* (File.ReadFrom) or after the first one (the generic loop), depending on the
\* library; the orchestrator logs the error and goes on.
NextPartCopyCreateFails ==
    /\ pc = "nextPart"
    /\ variant = "cipher"
    /\ partReqs < MaxParts
    /\ MayDrain
    /\ \E p \in Parts :
        /\ ~IsCookiePart(p)
        /\ IsFilePart(p)
        /\ \/ partReads' = 0
           \/ /\ PartReadOutcomes(p, CopyBufSize) # {}
              /\ partReads' = 1
    /\ partReqs' = partReqs + 1
    /\ checked' = "none"
    /\ streamPos' = 0
    /\ DrainReturns("createErr", 0, 0)
    /\ UNCHANGED <<cfgVars, sess, wr, tampered, files, isAuthorized, buffer, drainTo, drain,
                   downloadFrom, dlExit, respVars, uploaded>>

\* CountingStreamReader.Read followed by io.Copy's Write of the n bytes read:
\* the bytes are XORed with the keystream and written to the file.
CopyInStep(o) ==
    /\ LET c == XORKeyStream(streamPos, Slice(part.data, part.pos, o.n))
       IN  files' = [files EXCEPT ![drainTo.name] = WriteAt(@, drainTo.off, c)]
    /\ partReads' = Min(partReads + 1, MaxReads)

\* one iteration of io.Copy in the cipher drain: bytes and no error.
CopyInData ==
    /\ pc = "copyIn"
    /\ \E o \in PartReadOutcomes(part, CopyBufSize) :
        /\ o.err = "nil"
        /\ CopyInStep(o)
        /\ part' = PartAfter(part, o)
        /\ streamPos' = streamPos + o.n
        /\ drainTo' = [drainTo EXCEPT !.off = @ + o.n]
    /\ UNCHANGED <<cfgVars, sess, wr, tampered, pc, sessVars, partReqs, buffer, checked, drain,
                   bytesWritten, partsWritten, drainExit, drainFailed, downloadFrom, dlExit,
                   respVars, uploaded>>

\* the read reports io.EOF: io.Copy writes what came with it and returns nil;
\* the deferred Close runs.
CopyInEOF ==
    /\ pc = "copyIn"
    /\ \E o \in PartReadOutcomes(part, CopyBufSize) :
        /\ o.err = "EOF"
        /\ CopyInStep(o)
        /\ drainTo' = NoHandle
    /\ streamPos' = 0
    /\ DrainReturns("eof", 0, 0)
    /\ uploaded' = [uploaded EXCEPT ![drainTo.name] = part.data]
    /\ UNCHANGED <<cfgVars, sess, wr, tampered, isAuthorized, partReqs, buffer, checked, drain,
                   downloadFrom, dlExit, respVars>>

\* the read reports another error: io.Copy writes what came with it and
\* returns the error, which the orchestrator logs.
CopyInError ==
    /\ pc = "copyIn"
    /\ \E o \in PartReadOutcomes(part, CopyBufSize) :
        /\ o.err = "err"
        /\ CopyInStep(o)
        /\ drainTo' = NoHandle
    /\ streamPos' = 0
    /\ DrainReturns("readErr", 0, 0)
    /\ UNCHANGED <<cfgVars, sess, wr, tampered, isAuthorized, partReqs, buffer, checked, drain,
                   downloadFrom, dlExit, respVars, uploaded>>

\* ------------------------------------------------------------ the download

\* the status the download handler answers with when os.Open fails
OpenFailsStatus == 500

\* serveHTTPDownloadGET: os.Open fails because the object does not exist.
DownloadOpenFails ==
    /\ pc = "idle"
    /\ \E f \in FileNames : files[f] = NoFile
    /\ NewRequest
    /\ downloadFrom' = NoHandle
    /\ dlExit' = "missing"
    /\ streamPos' = 0
    /\ status' = OpenFailsStatus /\ msgs' = <<OpenFailsStatus>> /\ body' = <<>>
    /\ pc' = "idle"
    /\ UNCHANGED <<cfgVars, sess, wr, tampered, files, uploaded>>

\* serveHTTPDownloadGET: os.Open succeeds; the plain revision enters its read
\* loop, the cipher revision builds a fresh CTR stream and starts io.Copy.
DownloadOpen ==
    /\ pc = "idle"
    /\ \E f \in FileNames :
        /\ files[f] # NoFile
        /\ downloadFrom' = [name |-> f, off |-> 0, open |-> TRUE,
                            werr |-> FALSE, had |-> FALSE]
    /\ NewRequest
    /\ dlExit' = "none"
    /\ streamPos' = 0
    /\ status' = 0 /\ msgs' = <<>> /\ body' = <<>>
    /\ pc' = IF variant = "plain" THEN "download" ELSE "copyOut"
    /\ UNCHANGED <<cfgVars, sess, wr, tampered, files, uploaded>>

\* w.Write(b): the first write sends the header with status 200.
ResponseWrite(b) ==
    /\ status' = (IF status = 0 /\ Len(b) > 0 THEN 200 ELSE status)
    /\ body' = body \o b
    /\ msgs' = msgs

\* the handler returns: the server sends the header if nothing has
ResponseEnd ==
    /\ status' = (IF status = 0 THEN 200 ELSE status)
    /\ UNCHANGED <<msgs, body>>

\* the source handle when the plain download handler returns: never closed
PlainDownloadReturn == downloadFrom

\* one iteration of the plain download loop: bytes, written to the response.
DownloadReadData ==
    /\ pc = "download"
    /\ \E o \in FileReadOutcomes(files[downloadFrom.name], downloadFrom.off,
                                 BufferSize) :
        /\ o.err = "nil"
        /\ ResponseWrite(Slice(files[downloadFrom.name], downloadFrom.off, o.n))
        /\ downloadFrom' = [downloadFrom EXCEPT !.off = @ + o.n]
    /\ UNCHANGED <<cfgVars, sess, wr, tampered, files, pc, dlExit, sessVars, partReqs, part, partReads,
                   buffer, checked, drainVars, drainExit, drainFailed, streamPos, uploaded>>

\* downloadFrom.Read returns io.EOF: break and return.
DownloadReadEOF ==
    /\ pc = "download"
    /\ \E o \in FileReadOutcomes(files[downloadFrom.name], downloadFrom.off,
                                 BufferSize) :
        o.err = "EOF"
    /\ ResponseEnd
    /\ dlExit' = "eof"
    /\ downloadFrom' = PlainDownloadReturn
    /\ pc' = "idle"
    /\ UNCHANGED <<cfgVars, sess, wr, tampered, files, sessVars, partReqs, part, partReads,
                   buffer, checked, drainVars, drainExit, drainFailed, streamPos, uploaded>>

\* downloadFrom.Read returns another error: 500 and return.
DownloadReadError ==
    /\ pc = "download"
    /\ \E o \in FileReadOutcomes(files[downloadFrom.name], downloadFrom.off,
                                 BufferSize) :
        o.err = "err"
    /\ HttpError(500)
    /\ dlExit' = "readErr"
    /\ downloadFrom' = PlainDownloadReturn
    /\ pc' = "idle"
    /\ UNCHANGED <<cfgVars, sess, wr, tampered, files, sessVars, partReqs, part, partReads,
                   buffer, checked, drainVars, drainExit, drainFailed, streamPos, uploaded>>

\* one iteration of io.Copy in the cipher download: CountingStreamReader.Read
\* XORs the bytes read, io.Copy writes them to the response.
CopyOutData ==
    /\ pc = "copyOut"
    /\ \E o \in FileReadOutcomes(files[downloadFrom.name], downloadFrom.off,
                                 CopyBufSize) :
        /\ o.err = "nil"
        /\ ResponseWrite(XORKeyStream(streamPos,
               Slice(files[downloadFrom.name], downloadFrom.off, o.n)))
        /\ downloadFrom' = [downloadFrom EXCEPT !.off = @ + o.n]
        /\ streamPos' = streamPos + o.n
    /\ UNCHANGED <<cfgVars, sess, wr, tampered, files, pc, dlExit, sessVars, partReqs, part, partReads,
                   buffer, checked, drainVars, drainExit, drainFailed, uploaded>>

\* io.Copy returns and its result is dropped; the deferred Close runs and
\* the handler returns.
CopyOutReturns(how) ==
    /\ ResponseEnd
    /\ downloadFrom' = [downloadFrom EXCEPT !.off = 0, !.open = FALSE]
    /\ dlExit' = how
    /\ streamPos' = 0
    /\ pc' = "idle"
    /\ UNCHANGED <<cfgVars, sess, wr, tampered, files, sessVars, partReqs, part, partReads,
                   buffer, checked, drainVars, drainExit, drainFailed,
                   uploaded>>

\* the read reports io.EOF.
CopyOutEOF ==
    /\ pc = "copyOut"
    /\ \E o \in FileReadOutcomes(files[downloadFrom.name], downloadFrom.off,
                                 CopyBufSize) :
        o.err = "EOF"
    /\ CopyOutReturns("eof")

\* the read reports another error.
CopyOutError ==
    /\ pc = "copyOut"
    /\ \E o \in FileReadOutcomes(files[downloadFrom.name], downloadFrom.off,
                                 CopyBufSize) :
        o.err = "err"
    /\ CopyOutReturns("readErr")

\* ------------------------------------------------------ the specification

Next ==
    \/ StartUpload
    \/ StartUploadFails
    \/ NextPartEOF
    \/ NextPartError
    \/ NextPartCookie
    \/ NextPartSkip
    \/ NextPartUnauthorized
    \/ NextPartDrain
    \/ NextPartCreateFails
    \/ NextPartCopy
    \/ NextPartCopyCreateFails
    \/ ValCheckRead
    \/ ValCheckFull
    \/ DrainReadData
    \/ DrainReadEOF
    \/ DrainReadError
    \/ CopyInData
    \/ CopyInEOF
    \/ CopyInError
    \/ DownloadOpenFails
    \/ DownloadOpen
    \/ DownloadReadData
    \/ DownloadReadEOF
    \/ DownloadReadError
    \/ CopyOutData
    \/ CopyOutEOF
    \/ CopyOutError

Spec == Init /\ [][Next]_vars

\* ------------------------------------------ the token check on its own

\* valCheck applied to any expected value and any stream: checkUploadCookie
\* has just been called on a token part.
InitVal ==
    /\ variant \in Variants
    /\ UploadCookie \in SeqsUpTo(MaxLen)
    /\ files = [f \in FileNames |-> NoFile]
    /\ pc = "valCheck"
    /\ isAuthorized = FALSE
    /\ partBytes = 0
    /\ partCount = 0
    /\ partReqs = 1
    /\ part \in {p \in Parts : IsCookiePart(p)}
    /\ partReads = 0
    /\ buffer = <<>>
    /\ checked = "none"
    /\ drainTo = NoHandle
    /\ drain = <<>>
    /\ bytesWritten = 0
    /\ partsWritten = 0
    /\ drainExit = "none"
    /\ drainFailed = FALSE
    /\ downloadFrom = NoHandle
    /\ dlExit = "none"
    /\ streamPos = 0
    /\ status = 0
    /\ msgs = <<>>
    /\ body = <<>>
    /\ uploaded = [f \in FileNames |-> NoUpload]
    /\ sess = [s \in Sessions |-> NoSession]
    /\ wr = NoWrite
    /\ tampered = 0

NextVal ==
    \/ ValCheckRead
    \/ ValCheckFull

SpecVal == InitVal /\ [][NextVal]_vars

\* ------------------------------------------------ concurrent uploads

\* net/http serves every request in its own goroutine: two upload requests
\* of the plain revision run serveHTTPUploadPOST at the same time, each with
\* its own locals in sess[s], on the one bucket.  Their streams deliver data
\* and then io.EOF, without errors, and os.Create succeeds; the error paths
\* are those of the sequential handlers above.

\* the variables of the sequential handlers, which these steps leave alone
seqVars == <<pc, isAuthorized, partBytes, partCount, partReqs, part,
             partReads, buffer, checked, drainTo, drain, bytesWritten,
             partsWritten, drainExit, drainFailed, downloadFrom, dlExit,
             streamPos, status, msgs, body, uploaded>>

\* each concurrent request carries one part less than a sequential one
ConcParts == MaxParts - 1

\* the bodies session s uploads: its own byte value, so that the writer of
\* every stored byte is known
ConcBodies(s) == {[i \in 1..k |-> s - 1] : k \in 1..MaxLen}

\* what valCheck may return for part p with buf read so far, over every way
\* the part splits its bytes across reads
RECURSIVE ValCheckRuns(_, _)
ValCheckRuns(buf, p) ==
    IF Len(buf) >= BufferSize
    THEN {ValCompare(buf, UploadCookie)}
    ELSE UNION {
        IF ValLoopBreaks(o)
        THEN {ValCompare(buf, UploadCookie)}
        ELSE ValCheckRuns(buf \o Slice(p.data, p.pos, o.n), PartAfter(p, o)) :
        o \in {x \in PartReadOutcomes(p, ValReadCap(buf)) :
                  x.err # "err"}}

\* a gate that opens for every session once one session is authorized
ConcMayDrainAny(s) == \E t \in Sessions : sess[t].isAuthorized

\* the gate before a drain: if isAuthorized, the local of this call
ConcMayDrain(s) == sess[s].isAuthorized

\* serveHTTPUploadPOST of session s up to its loop
ConcStart(s) ==
    /\ sess[s].pc = "idle"
    /\ sess' = [sess EXCEPT ![s] = [NoSession EXCEPT !.pc = "nextPart"]]
    /\ UNCHANGED <<cfgVars, files, seqVars, wr, tampered>>

\* NextPart yields the token field: checkUploadCookie runs on it
ConcCookie(s) ==
    /\ sess[s].pc = "nextPart"
    /\ sess[s].reqs < ConcParts
    /\ \E p \in CookieParts :
        \E ok \in ValCheckRuns(<<>>, p) :
            sess' = [sess EXCEPT
                ![s].reqs = @ + 1,
                ![s].isAuthorized = AuthorizedAfter(@, ok),
                ![s].verified = (@ \/ ok)]
    /\ UNCHANGED <<cfgVars, files, seqVars, wr, tampered>>

\* NextPart yields a part that is neither the token field nor a file
ConcSkip(s) ==
    /\ sess[s].pc = "nextPart"
    /\ sess[s].reqs < ConcParts
    /\ OtherParts # {}
    /\ sess' = [sess EXCEPT ![s].reqs = @ + 1]
    /\ UNCHANGED <<cfgVars, files, seqVars, wr, tampered>>

\* NextPart yields a file part while the gate is closed: 400 and return
ConcReject(s) ==
    /\ sess[s].pc = "nextPart"
    /\ sess[s].reqs < ConcParts
    /\ \E p \in Parts : ~IsCookiePart(p) /\ IsFilePart(p)
    /\ ~ConcMayDrain(s)
    /\ sess' = [sess EXCEPT ![s].reqs = @ + 1,
                            ![s].status = 400,
                            ![s].isAuthorized = FALSE,
                            ![s].pc = "done"]
    /\ UNCHANGED <<cfgVars, files, seqVars, wr, tampered>>

\* NextPart yields a file part with the gate open: os.Create truncates the
\* object, whoever else has it open, and the drain's loop starts
ConcDrainStart(s) ==
    /\ sess[s].pc = "nextPart"
    /\ sess[s].reqs < ConcParts
    /\ ConcMayDrain(s)
    /\ \E f \in FileNames, d \in ConcBodies(s) :
        /\ files' = [files EXCEPT ![f] = <<>>]
        /\ sess' = [sess EXCEPT
              ![s].reqs = @ + 1,
              ![s].part = [form |-> "theFile", file |-> f, data |-> d,
                           pos |-> 0, broken |-> FALSE],
              ![s].drainTo = [name |-> f, off |-> 0, open |-> TRUE,
                              werr |-> FALSE, had |-> files[f] # NoFile],
              ![s].drain = <<>>,
              ![s].pc = "drain"]
    /\ UNCHANGED <<cfgVars, seqVars, wr, tampered>>

\* one iteration of the drain's loop in session s: the bytes go to its
\* bufio.Writer, and what that hands on is written at this handle's offset
ConcDrainRead(s) ==
    /\ sess[s].pc = "drain"
    /\ \E o \in PartReadOutcomes(sess[s].part, BufferSize) :
        /\ o.err = "nil"
        /\ LET r == sess[s]
               w == BufioWrite(r.drain, Slice(r.part.data, r.part.pos, o.n))
           IN  /\ files' = [files EXCEPT ![r.drainTo.name] =
                               WriteAt(@, r.drainTo.off, w.out)]
               /\ sess' = [sess EXCEPT
                     ![s].part = PartAfter(r.part, o),
                     ![s].drain = w.buf,
                     ![s].drainTo.off = @ + Len(w.out),
                     ![s].bytesWritten = @ + o.n,
                     ![s].partsWritten = @ + 1,
                     ![s].own = @ + o.n]
    /\ UNCHANGED <<cfgVars, seqVars, wr, tampered>>

\* part.Read returns io.EOF in session s: Flush, Close, and the orchestrator
\* adds the drain's counters to its own
ConcDrainEOF(s) ==
    /\ sess[s].pc = "drain"
    /\ \E o \in PartReadOutcomes(sess[s].part, BufferSize) :
        o.err = "EOF" /\ o.n = 0
    /\ LET r == sess[s]
       IN  /\ files' = [files EXCEPT ![r.drainTo.name] =
                           WriteAt(@, r.drainTo.off, r.drain)]
           /\ sess' = [sess EXCEPT
                 ![s].sent = r.part.data,
                 ![s].part = NoPart,
                 ![s].drainTo = NoHandle,
                 ![s].drain = <<>>,
                 ![s].partBytes = @ + r.bytesWritten,
                 ![s].partCount = @ + r.partsWritten,
                 ![s].bytesWritten = 0,
                 ![s].partsWritten = 0,
                 ![s].pc = "nextPart"]
    /\ UNCHANGED <<cfgVars, seqVars, wr, tampered>>

\* NextPart returns io.EOF in session s: the "ok" page, and return
ConcEnd(s) ==
    /\ sess[s].pc = "nextPart"
    /\ sess' = [sess EXCEPT ![s].status = 200,
                            ![s].isAuthorized = FALSE,
                            ![s].pc = "done"]
    /\ UNCHANGED <<cfgVars, files, seqVars, wr, tampered>>

InitConc ==
    /\ Init
    /\ variant = "plain"

NextConc ==
    \/ \E s \in Sessions : ConcStart(s)
    \/ \E s \in Sessions : ConcCookie(s)
    \/ \E s \in Sessions : ConcSkip(s)
    \/ \E s \in Sessions : ConcReject(s)
    \/ \E s \in Sessions : ConcDrainStart(s)
    \/ \E s \in Sessions : ConcDrainRead(s)
    \/ \E s \in Sessions : ConcDrainEOF(s)
    \/ \E s \in Sessions : ConcEnd(s)

SpecConc == InitConc /\ [][NextConc]_vars

\* ------------------------------------- concurrent cipher transfers

\* Requests of the cipher revision served at the same time: uploads with
\* several file parts and downloads, on a bucket of two names.  Every
\* transfer calls doCipherByReaderWriter, whose cipher.Stream is a local of
\* that call; sess[s].streamPos is the position of the stream session s
\* created last.  Streams deliver data and then io.EOF, without errors.
\* alone: no other drain has had the object open since this one created it;
\* want: the completed upload a download found, NoUpload once a drain touches
\* the object.

CiphNames == {"a", "b"}

\* the bodies session s uploads here: io.Copy's buffer takes any of them in
\* one read, or in several
CiphBodies(s) == {[i \in 1..k |-> s - 1] : k \in 1..2}

\* the variables of the sequential handlers apart from the uploads' record
ciphSeqVars == <<pc, isAuthorized, partBytes, partCount, partReqs, part,
                 partReads, buffer, checked, drainTo, drain, bytesWritten,
                 partsWritten, drainExit, drainFailed, downloadFrom, dlExit,
                 streamPos, status, msgs, body>>

\* a transfer that goes on with the stream of the transfer before it
KeepCTR(prev) == prev

\* cipher.NewCTR(writeCipher, iv[:]): a stream at position 0, whatever stream
\* the session used before
NewCTR(prev) == 0

\* session r after a drain of another session created or wrote object f
Disturbed(r, f) ==
    [r EXCEPT !.alone = (@ /\ r.drainTo.name # f),
              !.want = (IF r.from.name = f /\ r.from.open
                        THEN NoUpload ELSE @)]

\* a drain of another session has object f open
OthersDrain(s, f) ==
    \E t \in Sessions \ {s} : sess[t].drainTo.open /\ sess[t].drainTo.name = f

\* NextPart yields a file part with the gate open: os.Create, a fresh
\* stream, and io.Copy starts
ConcCopyStart(s) ==
    /\ sess[s].pc = "nextPart"
    /\ sess[s].reqs < MaxParts
    /\ ConcMayDrain(s)
    /\ \E f \in CiphNames, d \in CiphBodies(s) :
        /\ files' = [files EXCEPT ![f] = <<>>]
        /\ uploaded' = [uploaded EXCEPT ![f] = NoUpload]
        /\ sess' = [t \in Sessions |->
              IF t = s
              THEN [sess[s] EXCEPT
                      !.reqs = @ + 1,
                      !.part = [form |-> "theFile", file |-> f, data |-> d,
                                pos |-> 0, broken |-> FALSE],
                      !.drainTo = [name |-> f, off |-> 0, open |-> TRUE,
                                   werr |-> FALSE, had |-> files[f] # NoFile],
                      !.streamPos = NewCTR(@),
                      !.alone = ~OthersDrain(s, f),
                      !.pc = "copyIn"]
              ELSE Disturbed(sess[t], f)]
    /\ UNCHANGED <<cfgVars, ciphSeqVars, wr, tampered>>

\* session s after CountingStreamReader.Read returned o and io.Copy wrote
\* the bytes to the object
CopiedIn(r, o) ==
    [r EXCEPT !.part = PartAfter(r.part, o),
              !.drainTo.off = @ + o.n,
              !.streamPos = @ + o.n]

\* one iteration of io.Copy in the drain of session s: bytes and no error
ConcCopyRead(s) ==
    /\ sess[s].pc = "copyIn"
    /\ \E o \in PartReadOutcomes(sess[s].part, CopyBufSize) :
        /\ o.err = "nil"
        /\ LET r == sess[s]
               f == r.drainTo.name
               c == XORKeyStream(r.streamPos,
                                 Slice(r.part.data, r.part.pos, o.n))
           IN  /\ files' = [files EXCEPT ![f] = WriteAt(@, r.drainTo.off, c)]
               /\ uploaded' = [uploaded EXCEPT ![f] = NoUpload]
               /\ sess' = [t \in Sessions |->
                     IF t = s THEN CopiedIn(r, o)
                     ELSE Disturbed(sess[t], f)]
    /\ UNCHANGED <<cfgVars, ciphSeqVars, wr, tampered>>

\* the read reports io.EOF in session s: io.Copy writes what came with it
\* and returns; the deferred Close runs
ConcCopyEOF(s) ==
    /\ sess[s].pc = "copyIn"
    /\ \E o \in PartReadOutcomes(sess[s].part, CopyBufSize) :
        /\ o.err = "EOF"
        /\ LET r == sess[s]
               f == r.drainTo.name
               c == XORKeyStream(r.streamPos,
                                 Slice(r.part.data, r.part.pos, o.n))
           IN  /\ files' = [files EXCEPT ![f] = WriteAt(@, r.drainTo.off, c)]
               /\ uploaded' = [uploaded EXCEPT ![f] =
                                  IF r.alone THEN r.part.data ELSE NoUpload]
               /\ sess' = [t \in Sessions |->
                     IF t = s
                     THEN [CopiedIn(r, o) EXCEPT
                             !.sent = r.part.data,
                             !.part = NoPart,
                             !.drainTo = NoHandle,
                             !.alone = FALSE,
                             !.pc = "nextPart"]
                     ELSE Disturbed(sess[t], f)]
    /\ UNCHANGED <<cfgVars, ciphSeqVars, wr, tampered>>

\* serveHTTPDownloadGET in session s: os.Open succeeds, a fresh stream, and
\* io.Copy starts
ConcServeStart(s) ==
    /\ sess[s].pc = "idle"
    /\ \E f \in CiphNames :
        /\ files[f] # NoFile
        /\ sess' = [sess EXCEPT ![s] = [NoSession EXCEPT
              !.from = [name |-> f, off |-> 0, open |-> TRUE,
                        werr |-> FALSE, had |-> FALSE],
              !.streamPos = NewCTR(sess[s].streamPos),
              !.want = (IF OthersDrain(s, f) THEN NoUpload ELSE uploaded[f]),
              !.pc = "copyOut"]]
    /\ UNCHANGED <<cfgVars, files, seqVars, wr, tampered>>

\* one iteration of io.Copy in the download of session s
ConcServeRead(s) ==
    /\ sess[s].pc = "copyOut"
    /\ LET r == sess[s]
       IN  \E o \in FileReadOutcomes(files[r.from.name], r.from.off,
                                     CopyBufSize) :
             /\ o.err = "nil"
             /\ sess' = [sess EXCEPT
                   ![s].body = @ \o XORKeyStream(r.streamPos,
                          Slice(files[r.from.name], r.from.off, o.n)),
                   ![s].from.off = @ + o.n,
                   ![s].streamPos = @ + o.n]
    /\ UNCHANGED <<cfgVars, files, seqVars, wr, tampered>>

\* the read reports io.EOF in the download of session s: io.Copy returns,
\* the deferred Close runs and the handler returns
ConcServeEOF(s) ==
    /\ sess[s].pc = "copyOut"
    /\ LET r == sess[s]
       IN  \E o \in FileReadOutcomes(files[r.from.name], r.from.off,
                                     CopyBufSize) :
             /\ o.err = "EOF"
             /\ sess' = [sess EXCEPT ![s].from.open = FALSE,
                                     ![s].status = 200,
                                     ![s].pc = "done"]
    /\ UNCHANGED <<cfgVars, files, seqVars, wr, tampered>>

InitCiph ==
    /\ variant = "cipher"
    /\ UploadCookie = <<1>>
    /\ files = [f \in CiphNames |-> NoFile]
    /\ pc = "idle"
    /\ isAuthorized = FALSE
    /\ partBytes = 0
    /\ partCount = 0
    /\ partReqs = 0
    /\ part = NoPart
    /\ partReads = 0
    /\ buffer = <<>>
    /\ checked = "none"
    /\ drainTo = NoHandle
    /\ drain = <<>>
    /\ bytesWritten = 0
    /\ partsWritten = 0
    /\ drainExit = "none"
    /\ drainFailed = FALSE
    /\ downloadFrom = NoHandle
    /\ dlExit = "none"
    /\ streamPos = 0
    /\ status = 0
    /\ msgs = <<>>
    /\ body = <<>>
    /\ uploaded = [f \in CiphNames |-> NoUpload]
    /\ sess = [s \in Sessions |-> NoSession]
    /\ wr = NoWrite
    /\ tampered = 0

NextCiph ==
    \/ \E s \in Sessions : ConcStart(s)
    \/ \E s \in Sessions : ConcCookie(s)
    \/ \E s \in Sessions : ConcCopyStart(s)
    \/ \E s \in Sessions : ConcCopyRead(s)
    \/ \E s \in Sessions : ConcCopyEOF(s)
    \/ \E s \in Sessions : ConcServeStart(s)
    \/ \E s \in Sessions : ConcServeRead(s)
    \/ \E s \in Sessions : ConcServeEOF(s)
    \/ \E s \in Sessions : ConcEnd(s)

SpecCiph == InitCiph /\ [][NextCiph]_vars

\* ------------------------------------------ CountingStreamWriter.Write

\* One call of Write(src) on a writer whose stream is at position pos, over
\* every source buffer and every answer of the sink W: the bytes it accepted
\* (sinkN of them) and its error.

\* the handlers are idle and the bucket is empty
HandlersIdle ==
    /\ files = [f \in FileNames |-> NoFile]
    /\ pc = "idle"
    /\ isAuthorized = FALSE
    /\ partBytes = 0
    /\ partCount = 0
    /\ partReqs = 0
    /\ part = NoPart
    /\ partReads = 0
    /\ buffer = <<>>
    /\ checked = "none"
    /\ drainTo = NoHandle
    /\ drain = <<>>
    /\ bytesWritten = 0
    /\ partsWritten = 0
    /\ drainExit = "none"
    /\ drainFailed = FALSE
    /\ downloadFrom = NoHandle
    /\ dlExit = "none"
    /\ streamPos = 0
    /\ status = 0
    /\ msgs = <<>>
    /\ body = <<>>
    /\ uploaded = [f \in FileNames |-> NoUpload]
    /\ sess = [s \in Sessions |-> NoSession]
    /\ tampered = 0

\* c := make([]byte, len(src)); w.S.XORKeyStream(c, src): the scratch buffer
\* and the caller's buffer afterwards
WriterXOR(pos, src) ==
    [c |-> XORKeyStream(pos, src), src |-> src]

\* the sink's error handed on as it is
WriteErrPassed(n, len, err) == err

\* the error Write returns after the sink took n of len bytes with err
WriteErr(n, len, err) ==
    IF n # len THEN (IF err = "nil" THEN "short" ELSE err) ELSE err

\* what w.W.Write(c) may answer: any count up to len(c), with or without an
\* error
SinkAnswers(c) == {[n |-> k, err |-> e] : k \in 0..Len(c), e \in {"nil", "err"}}

\* CountingStreamWriter.Write(src)
WriterWrite ==
    /\ wr.at = "call"
    /\ LET b == WriterXOR(wr.pos, wr.src)
       IN  \E a \in SinkAnswers(b.c) :
             wr' = [wr EXCEPT !.at = "ret",
                              !.sinkN = a.n,
                              !.sinkErr = a.err,
                              !.sunk = Slice(b.c, 0, a.n),
                              !.after = b.src,
                              !.n = a.n,
                              !.err = WriteErr(a.n, Len(wr.src), a.err)]
    /\ UNCHANGED <<cfgVars, files, seqVars, sess, tampered>>

InitWrite ==
    /\ variant = "cipher"
    /\ UploadCookie = <<1>>
    /\ HandlersIdle
    /\ wr \in {[NoWrite EXCEPT !.at = "call", !.src = b, !.pos = p] :
                  b \in SeqsUpTo(MaxLen), p \in 0..MaxLen}

NextWrite == WriterWrite

SpecWrite == InitWrite /\ [][NextWrite]_vars

\* ------------------------------------------------ a changed stored byte

\* The cipher revision with one upload and downloads, between which one byte
\* of a stored object is changed in the bucket directory, outside the server.
\* Streams and files are read without errors.

\* content with the byte at position i changed
Flip(content, i) == [content EXCEPT ![i] = 1 - @]

\* one byte of an object that a completed upload stored is changed
Tamper ==
    /\ pc = "idle"
    /\ tampered = 0
    /\ \E f \in FileNames, i \in 1..MaxLen :
        /\ files[f] # NoFile
        /\ uploaded[f] # NoUpload
        /\ i <= Len(files[f])
        /\ files' = [files EXCEPT ![f] = Flip(@, i)]
        /\ tampered' = i
    /\ UNCHANGED <<cfgVars, seqVars, sess, wr>>

InitTamper ==
    /\ Init
    /\ variant = "cipher"

NextTamper ==
    \/ StartUpload
    \/ NextPartCookie
    \/ ValCheckRead
    \/ ValCheckFull
    \/ NextPartCopy
    \/ CopyInData
    \/ CopyInEOF
    \/ NextPartEOF
    \/ Tamper
    \/ DownloadOpen
    \/ CopyOutData
    \/ CopyOutEOF

SpecTamper == InitTamper /\ [][NextTamper]_vars

\* ------------------------------------------------------------------ claims

Range(s) == {s[i] : i \in DOMAIN s}

\* valCheck has just returned (the step that leaves its loop)
ValCheckReturned == pc = "valCheck" /\ pc' = "nextPart"

\* the part loop has just been handed one more part
PartTaken == pc = "nextPart" /\ partReqs' = partReqs + 1

\* the plain drain has just returned to the orchestrator
PlainDrainReturned == variant = "plain" /\ pc = "drain" /\ pc' = "nextPart"

\* C1: a file part is drained only after a token part of the same request
\* verified: a drain starts, and the bucket changes, only while the flag is
\* set, the flag is set only by a token check that returned true, and a file
\* part met while the flag is clear is answered 400, ends the session and
\* leaves the bucket as it was.
C1_DrainOnlyAfterToken ==
    [][ /\ (pc = "nextPart" /\ pc' \in {"drain", "copyIn"}) => isAuthorized
        /\ (files' # files) => isAuthorized
        /\ (~isAuthorized /\ isAuthorized')
              => (ValCheckReturned /\ checked' = "true")
        /\ (PartTaken /\ ~isAuthorized
              /\ IsFilePart(part') /\ ~IsCookiePart(part'))
              => (status' = 400 /\ pc' = "idle" /\ files' = files) ]_vars

\* a file part was met before any token verified and nothing was written
C1_Witness ==
    /\ pc = "idle"
    /\ status = 400
    /\ IsFilePart(part)
    /\ \A f \in FileNames : files[f] = NoFile

\* C2: valCheck returns true if and only if the stream's total bytes equal
\* the expected value (so false for an empty, a truncated, a longer and a
\* differing stream).
C2_ValCheckExact ==
    [][ValCheckReturned =>
          ((checked' = "true") <=> (part.data = UploadCookie))]_vars

\* C3: a download that ran to the end of an object stored by a completed
\* upload returns exactly the bytes that were uploaded.
C3_RoundTrip ==
    (dlExit = "eof" /\ uploaded[downloadFrom.name] # NoUpload)
        => body = uploaded[downloadFrom.name]

\* C4: once the 400 of a rejection is written the session is over: it is the
\* last thing written, no part was or is drained, no success page follows.
C4_RejectStops ==
    (400 \in Range(msgs))
        => /\ pc = "idle"
           /\ msgs[Len(msgs)] = 400
           /\ ~(200 \in Range(msgs))
           /\ drainTo = NoHandle
           /\ drainExit = "none"
           /\ ~isAuthorized

\* a rejected session whose multipart stream had a part before the file part
C4_Witness ==
    /\ 400 \in Range(msgs)
    /\ pc = "idle"
    /\ partReqs > 1

\* C5: authorization starts false with each request, is set only by a token
\* check that returned true, and is never cleared while the request's part
\* loop runs (a later failing token check leaves it set).
C5_AuthorizationMonotonic ==
    [][ /\ (pc = "idle" /\ pc' # "idle") => ~isAuthorized'
        /\ (~isAuthorized /\ isAuthorized')
              => (ValCheckReturned /\ checked' = "true")
        /\ (isAuthorized /\ pc' # "idle") => isAuthorized' ]_vars

\* a token check has returned false and the session is still authorized
C5_Witness ==
    /\ isAuthorized
    /\ checked = "false"
    /\ pc = "nextPart"

\* C6: after the plain drain failed to create its object a 500 is on the
\* response and the part loop takes no further part.
C6_CreateFailureStopsSession ==
    [][(variant = "plain" /\ drainExit = "createErr")
          => (500 \in Range(msgs) /\ ~PartTaken)]_vars

\* C7: the success page is written only by a session in which no drain
\* failed.
C7_OkOnlyOnFullSuccess ==
    (200 \in Range(msgs)) => ~drainFailed

\* C8: whenever the plain drain returns, every byte it has written to its
\* buffered writer is in the object and the object is closed.
C8_FlushedOnEveryExit ==
    [][PlainDrainReturned
          => /\ files'[drainTo.name] = files[drainTo.name] \o drain
             /\ drainTo' = NoHandle ]_vars

\* C9: when the plain drain cannot create its object it reports a 500 and
\* returns without reading the part, without writing and with no object
\* open.
C9_CreateFailureReadsNothing ==
    [][(variant = "plain" /\ PartTaken /\ drainExit' = "createErr")
          => /\ msgs' = Append(msgs, 500)
             /\ partReads' = 0
             /\ files' = files
             /\ drainTo' = NoHandle
             /\ partBytes' = partBytes
             /\ pc' = "nextPart" ]_vars

\* the plain drain has returned from a failed create
C9_Witness ==
    /\ variant = "plain"
    /\ drainExit = "createErr"
    /\ 500 \in Range(msgs)

\* C10: a download of an object that does not exist is answered with a
\* client error, a download whose read failed with a server error.
C10_DownloadErrorClasses ==
    /\ dlExit = "missing" => status \in 400..499
    /\ dlExit = "readErr" => status \in 500..599

\* C11: when the plain download handler has returned, after the end of the
\* object or after a read error, its source handle is closed.
C11_DownloadHandleReleased ==
    (variant = "plain" /\ pc = "idle" /\ dlExit \in {"eof", "readErr"})
        => ~downloadFrom.open

\* both concurrent sessions have returned after each completed a drain
BothDrained ==
    \A s \in Sessions : sess[s].pc = "done" /\ sess[s].sent # NoUpload

\* C12: when two concurrent sessions have each drained an upload to the same
\* path, the stored content is the complete body of one of the two uploads.
C12_LastWriterWins ==
    (BothDrained /\ \A f \in FileNames : files[f] # NoFile)
        => \A f \in FileNames : files[f] \in {sess[s].sent : s \in Sessions}

\* C13: a concurrent session drains, and counts, only on its own account: it
\* is authorized, draining or has counted bytes only if a token check of its
\* own returned true, and its counters hold exactly the bytes its own drains
\* took from its own parts.
C13_SessionsShareNothing ==
    \A s \in Sessions :
        /\ (sess[s].isAuthorized \/ sess[s].pc = "drain"
             \/ sess[s].partCount > 0 \/ sess[s].sent # NoUpload)
              => sess[s].verified
        /\ sess[s].partBytes + sess[s].bytesWritten = sess[s].own

\* one session is draining with counted bytes while the other, which never
\* verified a token, has been rejected
C13_Witness ==
    \E s, t \in Sessions :
        /\ sess[s].pc = "drain"
        /\ sess[s].bytesWritten > 0
        /\ sess[s].verified
        /\ ~sess[t].verified
        /\ sess[t].status = 400

\* C14: in every read/write cycle of a drain or a download the bytes taken
\* from the source and not yet handed to the destination, those just read
\* plus those pending in the writer, are at most BufferSize, and so are the
\* bytes one read returns.
C14_BoundedPending ==
    [][ /\ (pc = "drain" /\ pc' = "drain")
              => (part'.pos - part.pos) + Len(drain) <= BufferSize
        /\ (pc = "copyIn" /\ pc' = "copyIn")
              => part'.pos - part.pos <= BufferSize
        /\ (pc \in {"download", "copyOut"} /\ pc' = pc)
              => downloadFrom'.off - downloadFrom.off <= BufferSize ]_vars

IsPrefix(a, b) == Len(a) <= Len(b) /\ a = Slice(b, 0, Len(a))

\* C17: at every point of a drain the object holds the first bytes of the
\* part, in the part's order (under the keystream in the cipher revision),
\* and at every point of a download the response holds the first bytes of the
\* object: nothing is reordered, repeated or left out.
C17_WrittenInOrder ==
    /\ pc = "drain"
          => /\ IsPrefix(files[drainTo.name], part.data)
             /\ Len(files[drainTo.name]) = drainTo.off
             /\ drainTo.off <= part.pos
    /\ pc = "copyIn"
          => /\ IsPrefix(XORKeyStream(0, files[drainTo.name]), part.data)
             /\ Len(files[drainTo.name]) = part.pos
    /\ pc = "download"
          => /\ IsPrefix(body, files[downloadFrom.name])
             /\ Len(body) = downloadFrom.off
    /\ pc = "copyOut"
          => /\ IsPrefix(XORKeyStream(0, body), files[downloadFrom.name])
             /\ Len(body) = downloadFrom.off

\* a plain drain after several read/write cycles with bytes of more than one
\* of them in the object
C17_Witness ==
    /\ pc = "drain"
    /\ partReads >= 2
    /\ Len(files[drainTo.name]) >= 2

\* C18: when the plain drain returns, the bytesWritten it returns is the
\* number of bytes that are in the object it created, and the session totals
\* grow by the counters it returns.
C18_CountersMatchSink ==
    [][PlainDrainReturned
          => /\ bytesWritten = Len(files'[drainTo.name])
             /\ partBytes' = partBytes + bytesWritten
             /\ partCount' = partCount + partsWritten ]_vars

\* the part loop has just been handed a part that is neither the token
\* field nor a file
SkipStep ==
    /\ PartTaken
    /\ part'.form # ""
    /\ ~IsCookiePart(part')
    /\ ~IsFilePart(part')

\* C19: a part without a file name that is not the token field changes
\* nothing: the authorized flag, the counters, the bucket and the response
\* are as before, none of its body is read, and the loop goes on to the next
\* part.
C19_SkipHasNoEffect ==
    [][SkipStep
          => /\ isAuthorized' = isAuthorized
             /\ partBytes' = partBytes
             /\ partCount' = partCount
             /\ files' = files
             /\ status' = status /\ msgs' = msgs /\ body' = body
             /\ part'.pos = 0
             /\ pc' = "nextPart" ]_vars

\* an authorized session has skipped a part with a body and goes on
C19_Witness ==
    /\ pc = "nextPart"
    /\ part.form = "theFile"
    /\ ~IsFilePart(part)
    /\ Len(part.data) > 0
    /\ isAuthorized

\* C20: a drain of the plain revision that ended normally, with no failed
\* write, on a path that already held an object leaves exactly the bytes of
\* its part in the object.
C20_OverwriteReplaces ==
    [][(PlainDrainReturned /\ drainExit' = "eof" /\ drainTo.had
          /\ uploaded'[drainTo.name] # NoUpload)
          => files'[drainTo.name] = part.data ]_vars

\* C21: when the cipher drain cannot create its object it stops without
\* consuming the part, no read is issued on the part and nothing is written,
\* and the session does not go on to write the success page.
C21_CipherCreateFailureStops ==
    [][ /\ (variant = "cipher" /\ PartTaken /\ drainExit' = "createErr")
              => (partReads' = 0 /\ files' = files)
        /\ (variant = "cipher" /\ drainExit = "createErr")
              => ~(200 \in Range(msgs')) ]_vars

\* C22: every cipher transfer has a keystream of its own that starts at
\* position 0: in every session the keystream position is the number of
\* bytes that session's own transfer has taken, whatever earlier parts of the
\* request and transfers of other sessions did; what a drain that had its
\* object to itself has stored is its part's bytes under the keystream from
\* 0, and a download of a completed upload that no drain touched meanwhile
\* returns the uploaded bytes, for each file of a request.
C22_CipherStatePerTransfer ==
    \A s \in Sessions :
        /\ sess[s].pc = "copyIn"
              => /\ sess[s].streamPos = sess[s].part.pos
                 /\ sess[s].alone
                       => files[sess[s].drainTo.name]
                            = XORKeyStream(0, Slice(sess[s].part.data, 0,
                                                    sess[s].part.pos))
        /\ sess[s].pc = "copyOut"
              => sess[s].streamPos = sess[s].from.off
        /\ (sess[s].pc = "done" /\ sess[s].want # NoUpload)
              => sess[s].body = sess[s].want

\* one session has downloaded the first file of a request of two or more
\* bytes while the other session was in the drain of that request's second
\* file, with bytes already taken
C22_Witness ==
    \E s, t \in Sessions :
        /\ sess[s].pc = "done"
        /\ sess[s].want # NoUpload
        /\ Len(sess[s].body) >= 2
        /\ sess[t].pc = "copyIn"
        /\ sess[t].reqs = MaxParts
        /\ sess[t].streamPos > 0
        /\ sess[t].sent = sess[s].want
        /\ sess[t].drainTo.name # sess[s].from.name

\* C23: CountingStreamWriter.Write reports a partial write as an error: when
\* the sink took fewer bytes than given and reported no error, Write returns
\* an error; when the sink took all the bytes without error, Write returns
\* len(src) and no error and the sink has the bytes under the keystream;
\* either way the caller's buffer is as it was.
C23_ShortWriteIsError ==
    wr.at = "ret"
        => /\ (wr.sinkN < Len(wr.src) /\ wr.sinkErr = "nil")
                 => wr.err # "nil"
           /\ (wr.sinkN = Len(wr.src) /\ wr.sinkErr = "nil")
                 => /\ wr.n = Len(wr.src)
                    /\ wr.err = "nil"
                    /\ wr.sunk = XORKeyStream(wr.pos, wr.src)
           /\ wr.after = wr.src

\* Write has returned the short-write error for a buffer of several bytes
\* that the transform changes, of which the sink took some
C23_Witness ==
    /\ wr.at = "ret"
    /\ Len(wr.src) >= 2
    /\ wr.sinkN \in 1..(Len(wr.src) - 1)
    /\ wr.sinkErr = "nil"
    /\ wr.err = "short"
    /\ wr.sunk # Slice(wr.src, 0, wr.sinkN)

\* C24: the cipher revision detects no change of a stored object: when a
\* download of an object of which one byte was changed after its upload
\* returns, no error was written, the status is 200, and the response has the
\* length of the uploaded bytes and differs from them exactly at the position
\* of the changed byte.
C24_NoIntegrityDetection ==
    [][(variant = "cipher" /\ pc = "copyOut" /\ pc' = "idle"
          /\ tampered # 0 /\ uploaded[downloadFrom.name] # NoUpload)
          => LET orig == uploaded[downloadFrom.name]
             IN  /\ status' = 200
                 /\ msgs' = <<>>
                 /\ Len(body') = Len(orig)
                 /\ \A i \in 1..Len(orig) :
                       (body'[i] # orig[i]) <=> (i = tampered) ]_vars

\* a download of an object of several bytes has returned after its second
\* byte was changed
C24_Witness ==
    /\ variant = "cipher"
    /\ pc = "idle"
    /\ dlExit = "eof"
    /\ tampered = 2
    /\ Len(body) > 2
    /\ uploaded[downloadFrom.name] # NoUpload
    /\ body # uploaded[downloadFrom.name]

\* C25: valCheck terminates whatever the token part's stream does: while its
\* loop runs, the buffer is full or the next read can still end the loop or
\* add to the bytes read, so that a stream that goes on failing cannot hold
\* the loop forever.
C25_ValCheckTerminates ==
    pc = "valCheck"
        => \/ Len(buffer) >= BufferSize
           \/ \E o \in PartReadOutcomes(part, ValReadCap(buffer)) :
                 ValLoopBreaks(o) \/ o.n > 0

\* the plain download has just returned
PlainDownloadReturned == pc = "download" /\ pc' = "idle"

\* C26: no byte a source delivers is dropped at the end of its stream, also
\* when the last bytes arrive together with io.EOF: after a read that
\* reported io.EOF the plain drain has counted every byte of the part and,
\* if no write failed, stored them all, valCheck has counted every byte of
\* the token part as read, and the plain download has written every byte of
\* the object.
C26_NoBytesDroppedAtEOF ==
    [][ /\ (PlainDrainReturned /\ drainExit' = "eof")
              => /\ bytesWritten = Len(part.data)
                 /\ (uploaded'[drainTo.name] # NoUpload)
                       => Len(files'[drainTo.name]) = Len(part.data)
        /\ (ValCheckReturned /\ Len(buffer) < BufferSize)
              => Len(buffer) = Len(part.data)
        /\ (PlainDownloadReturned /\ dlExit' = "eof")
              => Len(body') = Len(files[downloadFrom.name]) ]_vars

====
